---- MODULE Spec2Model ----
(***************************************************************************)
(* KeywordsAISpanExporter (openai-agents-python-example/handoffs/           *)
(* keywordsai_processors.py): record normalization, the export retry loop  *)
(* with exponential backoff, and set_endpoint.                              *)
(*                                                                          *)
(* Delays are integers in units of 1/10 of the configured time unit, so     *)
(* that the 10% jitter bound 0.1 * delay is the integer delay \div 10 for   *)
(* the delays used here (all multiples of 10).                              *)
(***************************************************************************)
EXTENDS Integers, Sequences, FiniteSets, TLC

\* ---------------------------------------------------------------- bounds
\* Largest max_retries the exporter is configured with.
MaxRetriesCfg == 3
\* Longest batch handed to export in the normalization specification.
MaxBatch == 2
\* Number of export calls made on the exporter.
MaxCalls == 2
\* max_queue_size of the processor (8192 by default).
MaxQueueSize == 3
\* Number of enqueue calls made on the processor.
MaxEnqueues == 5
\* Langfuse wrapper: traces, spans and generations created; end() calls;
\* flush() calls; TRACE_BATCH_SIZE (10 by default).
MaxNodes == 3
MaxEnds == 3
MaxFlushes == 2
BatchSize == 2

\* ------------------------------------------------------- values and records
\* Attribute / mapping values.  "<file>" stands for a value json.dumps rejects
\* with TypeError (an open file handle, a bound method); "<circular>" for a
\* value json.dumps rejects with ValueError (a self-referencing container);
\* "<raises>" for a property whose getter raises RuntimeError when read.
NotSerializable == {"<file>", "<circular>"}

EmptyMap == [k \in {} |-> "v"]

Put(m, k, v) == [x \in (DOMAIN m) \cup {k} |-> IF x = k THEN v ELSE m[x]]

\* item.export() of the upstream record: None, or a mapping.
NativeNone == [isNone |-> TRUE, map |-> EmptyMap]
Native(m) == [isNone |-> FALSE, map |-> m]

Trace(native, raises) ==
    [kind |-> "trace", native |-> native, exportRaises |-> raises,
     span_id |-> "", parent_id |-> "", trace_id |-> "",
     span_data_type |-> "", span_data |-> EmptyMap]

Span(native, sid, pid, tid, ty, sd) ==
    [kind |-> "span", native |-> native, exportRaises |-> FALSE,
     span_id |-> sid, parent_id |-> pid, trace_id |-> tid,
     span_data_type |-> ty, span_data |-> sd]

TraceOk == Trace(Native([id |-> "t1", workflow_name |-> "wf"]), FALSE)
TraceNone == Trace(NativeNone, FALSE)
TraceEmpty == Trace(Native(EmptyMap), FALSE)
TraceFile == Trace(Native([id |-> "t1", handle |-> "<file>"]), FALSE)
SpanMixed ==
    Span(Native([id |-> "s2", trace_id |-> "t1"]), "s2", "s1", "t1",
         "FunctionSpanData",
         [name |-> "tool", export |-> "<file>", _cache |-> "c"])
SpanRaises ==
    Span(Native([id |-> "s3", trace_id |-> "t1"]), "s3", "s1", "t1",
         "CustomSpanData", [name |-> "custom", data |-> "<raises>"])
\* A span whose export() already holds span_type and a trace_id of its own.
SpanOwnIds ==
    Span(Native([id |-> "s4", trace_id |-> "t0", span_type |-> "own"]),
         "s4", "s1", "t1", "AgentSpanData", [name |-> "agent"])
Records ==
    {TraceOk, TraceNone, TraceEmpty, TraceFile, SpanMixed, SpanRaises,
     SpanOwnIds}

RECURSIVE SeqsUpTo(_, _)
SeqsUpTo(S, n) ==
    IF n = 0 THEN {<<>>}
    ELSE LET shorter == SeqsUpTo(S, n - 1)
         IN shorter \cup {Append(s, x) : s \in shorter, x \in S}

\* Batches handed to export in the normalization specification.
AllBatches == SeqsUpTo(Records, MaxBatch)
\* Batches handed to export in the retry specification.
RetryBatches == {<<>>, <<TraceOk>>, <<SpanMixed, TraceOk>>}
\* Batches handed to export in the endpoint specification.
EndpointBatches == {<<TraceOk>>}

\* ------------------------------------------------------ _keywordsai_export
\* attr_name.startswith("_") over the attribute names used here.
IsPrivate(name) == name \in {"_cache"}

\* json.dumps({"test": attr_value}) raises TypeError / OverflowError.
DumpsTypeError(v) == v = "<file>"

\* Reading or probing the attribute raises something the except clause does
\* not catch: the getter raises RuntimeError, or json.dumps raises ValueError
\* on a circular reference.
AttrEscapes(v) == v \in {"<raises>", "<circular>"}

\* The attributes the loop over dir(span_data) copies into the result.
Flattened(sd) ==
    {n \in DOMAIN sd : ~IsPrivate(n) /\ ~DumpsTypeError(sd[n]) /\ ~AttrEscapes(sd[n])}

RECURSIVE PutAll(_, _, _)
PutAll(m, sd, names) ==
    IF names = {} THEN m
    ELSE LET n == CHOOSE x \in names : TRUE
         IN PutAll(Put(m, "span_data_" \o n, sd[n]), sd, names \ {n})

\* `if not native_export`: None and the empty mapping are both falsy.
Falsy(native) == native.isNone \/ DOMAIN native.map = {}

\* _keywordsai_export raises instead of returning.
keywordsai_export_raises(item) ==
    \/ item.exportRaises
    \/ /\ ~Falsy(item.native)
       /\ item.kind = "span"
       /\ \E n \in DOMAIN item.span_data :
             ~IsPrivate(n) /\ AttrEscapes(item.span_data[n])

\* dict assignment that leaves a key the mapping already has alone.
PutIfAbsent(m, k, v) == IF k \in DOMAIN m THEN m ELSE Put(m, k, v)

\* Faulty variant: the added fields never replace a field of the native
\* mapping.
keywordsai_export_KeepNative(item) ==
    IF Falsy(item.native) THEN NativeNone
    ELSE IF item.kind = "trace"
         THEN Native(PutIfAbsent(item.native.map, "span_type", "trace"))
    ELSE LET r1 == PutIfAbsent(item.native.map, "span_type", item.span_data_type)
             r2 == PutIfAbsent(r1, "span_id", item.span_id)
             r3 == PutIfAbsent(r2, "parent_id", item.parent_id)
             r4 == PutIfAbsent(r3, "trace_id", item.trace_id)
         IN Native(PutAll(r4, item.span_data, Flattened(item.span_data)))

\* The value _keywordsai_export returns (when it returns).  Span declares
\* span_id, parent_id, trace_id and span_data, so the hasattr tests hold for
\* every span.
keywordsai_export(item) ==
    IF Falsy(item.native) THEN NativeNone
    ELSE IF item.kind = "trace"
         THEN Native(Put(item.native.map, "span_type", "trace"))
    ELSE LET r1 == Put(item.native.map, "span_type", item.span_data_type)
             r2 == Put(r1, "span_id", item.span_id)
             r3 == Put(r2, "parent_id", item.parent_id)
             r4 == Put(r3, "trace_id", item.trace_id)
         IN Native(PutAll(r4, item.span_data, Flattened(item.span_data)))

RECURSIVE MapExport(_)
MapExport(its) ==
    IF its = <<>> THEN <<>>
    ELSE <<keywordsai_export(Head(its))>> \o MapExport(Tail(its))

Truthy(r) == ~Falsy(r)

RECURSIVE Maps(_)
Maps(rs) == IF rs = <<>> THEN <<>> ELSE <<Head(rs).map>> \o Maps(Tail(rs))

\* Faulty variant: the falsy results are not filtered out.
Data_Unfiltered(its) == Maps(MapExport(its))

\* data = [self._keywordsai_export(item) for item in items]; filtered.
Data(its) == Maps(SelectSeq(MapExport(its), Truthy))

\* httpx encodes json=payload with json.dumps before sending: a value that
\* is not serializable makes client.post raise TypeError / ValueError, which
\* is no httpx.RequestError.
PayloadEncodes(data) ==
    \A i \in 1..Len(data) : \A k \in DOMAIN data[i] : data[i][k] \notin NotSerializable

\* ------------------------------------------------------------ configuration
Endpoints == {"https://api.keywordsai.co/api/", "https://alt.example/api/"}
DefaultEndpoint == "https://api.keywordsai.co/api/"
RetriesCfg == (-1)..MaxRetriesCfg
BaseDelays == {10, 20}
MaxDelays == {10, 30}

\* What the transport does with one POST: a response with a status code, or
\* an httpx.RequestError (timeout, connection refused).
Statuses == {200, 299, 300, 400, 499, 500, 503}
Response(s) == [err |-> FALSE, status_code |-> s]
RequestError == [err |-> TRUE, status_code |-> 0]
Responses == {Response(s) : s \in Statuses} \cup {RequestError}
\* The answers of the transport in the normalization and endpoint
\* specifications.
FewResponses == {Response(200), Response(400), Response(503), RequestError}

Min(a, b) == IF a <= b THEN a ELSE b

\* Faulty variant: 20% jitter.
Jitter_Twenty(d) == {0, d \div 10, d \div 5}

\* random.uniform(0, 0.1 * delay): the two ends of the range and its middle.
Jitter(d) == {0, d \div 20, d \div 10}

VARIABLES
    api_key,        \* exporter: TRUE iff self.api_key is set
    endpoint,       \* exporter: self.endpoint
    max_retries,    \* exporter: self.max_retries
    base_delay,     \* exporter: self.base_delay
    max_delay,      \* exporter: self.max_delay
    pc,             \* export: "idle" (no call running), "loop", "inflight"
    items,          \* export: the batch of the current / last call
    payload,        \* export: payload["data"]
    attempt,        \* export: attempt
    delay,          \* export: delay
    outcome,        \* how the current / last call ended ("running" while it runs)
    calls,          \* number of export calls started so far
    posts,          \* the POSTs of the current / last call: [url, data]
    answers,        \* the transport's answers to them
    sleeps,         \* the time.sleep arguments of the current / last call
    startEndpoint,  \* self.endpoint when the current / last call started
    queue,          \* processor: the pending records, oldest first
    dropped,        \* processor: the drop counter
    tick,           \* processor: the schedule interval has elapsed
    mode,           \* processor: "run", or "flush" while flush() is running
    enqueued,       \* number of enqueue calls so far
    accepted,       \* the records enqueue appended, in order
    handed,         \* the records handed to the exporter, in order
    print_traces,   \* Langfuse wrapper: PRINT_TRACES
    nodes,          \* the TraceWrapper / SpanWrapper / GenerationWrapper objects
    logs_batch,     \* LangfuseToKeywordsAI.logs_batch
    lfposts,        \* the POSTs to /v1/traces/ingest, with their outcome
    ends,           \* number of end() calls that returned
    flushes,        \* number of flush() calls
    flush_raised    \* the last flush() raised

\* The Langfuse wrapper's part of the state.
lfvars == <<print_traces, nodes, logs_batch, lfposts, ends, flushes, flush_raised>>

\* The processor's part of the state.
pvars == <<queue, dropped, tick, mode, enqueued, accepted, handed>>

vars ==
    <<api_key, endpoint, max_retries, base_delay, max_delay, pc, items,
      payload, attempt, delay, outcome, calls, posts, answers, sleeps,
      startEndpoint, queue, dropped, tick, mode, enqueued, accepted, handed,
      print_traces, nodes, logs_batch, lfposts, ends, flushes, flush_raised>>

config == <<api_key, max_retries, base_delay, max_delay>>

\* KeywordsProcessor.__init__: an empty queue, the timer just started.
ProcInit ==
    /\ queue = <<>>
    /\ dropped = 0
    /\ tick = FALSE
    /\ mode = "run"
    /\ enqueued = 0
    /\ accepted = <<>>
    /\ handed = <<>>

\* LangfuseToKeywordsAI.__init__: no wrapper object yet, an empty batch.
LfInit(printing) ==
    /\ print_traces \in printing
    /\ nodes = <<>>
    /\ logs_batch = <<>>
    /\ lfposts = <<>>
    /\ ends = 0
    /\ flushes = 0
    /\ flush_raised = FALSE

\* KeywordsAISpanExporter.__init__
InitExporter(keys, retries, bases, maxes) ==
    /\ api_key \in keys
    /\ endpoint = DefaultEndpoint
    /\ max_retries \in retries
    /\ base_delay \in bases
    /\ max_delay \in maxes
    /\ pc = "idle"
    /\ items = <<>>
    /\ payload = <<>>
    /\ attempt = 0
    /\ delay = 0
    /\ outcome = "none"
    /\ calls = 0
    /\ posts = <<>>
    /\ answers = <<>>
    /\ sleeps = <<>>
    /\ startEndpoint = DefaultEndpoint

\* The exporter, with the processor and the Langfuse wrapper at rest.
InitWith(keys, retries, bases, maxes) ==
    /\ ProcInit
    /\ LfInit({FALSE})
    /\ InitExporter(keys, retries, bases, maxes)

Init == InitWith(BOOLEAN, RetriesCfg, BaseDelays, MaxDelays)

InitNorm == InitWith(BOOLEAN, {2}, {10}, {30})

InitEndpoint == InitWith({TRUE}, {MaxRetriesCfg}, {10}, {30})

\* KeywordsAISpanExporter.set_endpoint (KeywordsProcessor.set_endpoint
\* delegates to it); it may run while an export call is in progress.
set_endpoint(u) ==
    /\ endpoint' = u
    /\ UNCHANGED <<config, pc, items, payload, attempt, delay, outcome, calls,
                   posts, answers, sleeps, startEndpoint>>

\* The export call returns (or raises) with outcome o.
Return(o) ==
    /\ pc' = "idle"
    /\ outcome' = o

\* Faulty variant: normalization writes into the mapping export() returned.
NativeAfter_InPlace(item) == keywordsai_export(item).map

\* `result = dict(native_export)`: every write of _keywordsai_export goes to
\* the copy, so the mapping the record's export() returned is, after the
\* call, what it was.
NativeAfter(item) == item.native.map

\* The records of the batch as the call leaves them: _keywordsai_export has
\* run on every record up to the first one on which it raises.
ItemsAfter(its, key) ==
    IF its = <<>> \/ ~key THEN its
    ELSE [i \in 1..Len(its) |->
            IF /\ \A j \in 1..i : ~keywordsai_export_raises(its[j])
               /\ ~Falsy(its[i].native)
            THEN [its[i] EXCEPT !.native = Native(NativeAfter(its[i]))]
            ELSE its[i]]

\* Faulty variants: the delay, the attempt count of the previous call is
\* carried over.
StartDelay_Carried(prev, base) == IF prev = 0 THEN base ELSE prev
StartAttempt_Carried(prev) == prev

\* `delay = self.base_delay` and `attempt = 0`, locals of export
StartDelay(prev, base) == base
StartAttempt(prev) == 0

\* Faulty variant: the API key check is missing.
NoApiKey_Unchecked(key) == FALSE

\* `if not self.api_key`
NoApiKey(key) == ~key

\* export(items), from its entry to the start of the backoff loop.
export_begin(its) ==
    /\ pc = "idle"
    /\ calls < MaxCalls
    /\ calls' = calls + 1
    /\ items' = ItemsAfter(its, api_key)
    /\ posts' = <<>>
    /\ answers' = <<>>
    /\ sleeps' = <<>>
    /\ startEndpoint' = endpoint
    /\ IF its = <<>>
       THEN Return("empty") /\ UNCHANGED <<payload, attempt, delay>>
       ELSE IF NoApiKey(api_key)
       THEN Return("no_key") /\ UNCHANGED <<payload, attempt, delay>>
       ELSE IF \E i \in 1..Len(its) : keywordsai_export_raises(its[i])
       THEN Return("raised") /\ UNCHANGED <<payload, attempt, delay>>
       ELSE IF Data(its) = <<>>
       THEN Return("no_data") /\ UNCHANGED <<payload, attempt, delay>>
       ELSE /\ payload' = Data(its)
            /\ attempt' = StartAttempt(attempt)
            /\ delay' = StartDelay(delay, base_delay)
            /\ pc' = "loop"
            /\ outcome' = "running"
    /\ UNCHANGED <<config, endpoint>>

\* Variant: the POST goes to the endpoint captured when the call started.
PostUrl_Captured == startEndpoint

\* `url=self.endpoint` of the POST
PostUrl == endpoint

\* One turn of the loop up to the POST being on the wire.
export_post ==
    /\ pc = "loop"
    /\ attempt < MaxRetriesCfg    \* the model's cap on the attempt counter
    /\ attempt' = attempt + 1
    /\ IF PayloadEncodes(payload)
       THEN /\ posts' = Append(posts, [url |-> PostUrl, data |-> payload])
            /\ pc' = "inflight"
            /\ UNCHANGED outcome
       ELSE Return("raised") /\ UNCHANGED posts
    /\ UNCHANGED <<config, endpoint, items, payload, delay, calls, answers,
                   sleeps, startEndpoint>>

\* Faulty variants of the give-up test: one attempt too many, one too few,
\* a loop that never gives up, a test for equality.
GiveUp_Never(a, m) == FALSE
GiveUp_Equal(a, m) == a = m
GiveUp_Late(a, m) == a > m
GiveUp_Early(a, m) == a + 1 >= m

\* `attempt >= self.max_retries`
GiveUp(a, m) == a >= m

\* Faulty variant: only 200 counts as success.
IsSuccess_Only200(resp) == ~resp.err /\ resp.status_code = 200

\* `response.status_code < 300`
IsSuccess(resp) == ~resp.err /\ resp.status_code < 300

\* Faulty variant: a 3xx status is taken for a permanent failure.
IsClientError_From300(resp) == ~resp.err /\ resp.status_code \in 300..499

\* Faulty variant: the lower end of the 4xx range is excluded.
IsClientError_Above400(resp) ==
    ~resp.err /\ 400 < resp.status_code /\ resp.status_code < 500

\* `400 <= response.status_code < 500`
IsClientError(resp) ==
    ~resp.err /\ 400 <= resp.status_code /\ resp.status_code < 500

\* Faulty variant: the delay doubles without the cap.
NextDelay_Uncapped(d, m) == d * 2

\* `delay = min(delay * 2, self.max_delay)`
NextDelay(d, m) == Min(d * 2, m)

\* Faulty variant: the sleep comes before the give-up test.
export_response_SleepFirst(resp) ==
    /\ pc = "inflight"
    /\ answers' = Append(answers, resp)
    /\ IF IsSuccess(resp)
       THEN Return("success") /\ UNCHANGED <<sleeps, delay>>
       ELSE IF IsClientError(resp)
       THEN Return("client_error") /\ UNCHANGED <<sleeps, delay>>
       ELSE \E j \in Jitter(delay) :
               /\ sleeps' = Append(sleeps, delay + j)
               /\ delay' = NextDelay(delay, max_delay)
               /\ IF GiveUp(attempt, max_retries)
                  THEN Return("gave_up")
                  ELSE pc' = "loop" /\ UNCHANGED outcome
    /\ UNCHANGED <<config, endpoint, items, payload, attempt, calls, posts,
                   startEndpoint>>

\* The rest of the turn: the answer to the POST, then return, or sleep and
\* go round again.
export_response(resp) ==
    /\ pc = "inflight"
    /\ answers' = Append(answers, resp)
    /\ IF IsSuccess(resp)
       THEN Return("success") /\ UNCHANGED <<sleeps, delay>>
       ELSE IF IsClientError(resp)
       THEN Return("client_error") /\ UNCHANGED <<sleeps, delay>>
       ELSE IF GiveUp(attempt, max_retries)
       THEN Return("gave_up") /\ UNCHANGED <<sleeps, delay>>
       ELSE \E j \in Jitter(delay) :
               /\ sleeps' = Append(sleeps, delay + j)
               /\ delay' = NextDelay(delay, max_delay)
               /\ pc' = "loop"
               /\ UNCHANGED outcome
    /\ UNCHANGED <<config, endpoint, items, payload, attempt, calls, posts,
                   startEndpoint>>

\* Retry and backoff: every configuration, every answer of the transport.
Next ==
    \/ \E its \in RetryBatches : export_begin(its) /\ UNCHANGED <<pvars, lfvars>>
    \/ export_post /\ UNCHANGED <<pvars, lfvars>>
    \/ \E resp \in Responses : export_response(resp) /\ UNCHANGED <<pvars, lfvars>>

Spec == Init /\ [][Next]_vars

\* The batches of the later calls in the normalization specification.
SingleBatches == SeqsUpTo(Records, 1)

\* Normalization: one configuration; every batch of up to MaxBatch records
\* on the first call, every batch of at most one record on the later ones.
NextNorm ==
    \/ \E its \in AllBatches :
          calls = 0 /\ export_begin(its) /\ UNCHANGED <<pvars, lfvars>>
    \/ \E its \in SingleBatches :
          calls > 0 /\ export_begin(its) /\ UNCHANGED <<pvars, lfvars>>
    \/ export_post /\ UNCHANGED <<pvars, lfvars>>
    \/ \E resp \in FewResponses : export_response(resp) /\ UNCHANGED <<pvars, lfvars>>

SpecNorm == InitNorm /\ [][NextNorm]_vars

\* set_endpoint running concurrently with export calls.
NextEndpoint ==
    \/ \E u \in Endpoints : set_endpoint(u) /\ UNCHANGED <<pvars, lfvars>>
    \/ \E its \in EndpointBatches : export_begin(its) /\ UNCHANGED <<pvars, lfvars>>
    \/ export_post /\ UNCHANGED <<pvars, lfvars>>
    \/ \E resp \in FewResponses : export_response(resp) /\ UNCHANGED <<pvars, lfvars>>

SpecEndpoint == InitEndpoint /\ [][NextEndpoint]_vars

\* The retry loop under fairness: export runs on one thread that keeps
\* going, and every POST attempt that was sent gets its answer (a response
\* or a transport error; the client is built with a timeout).
SpecLive ==
    /\ Init
    /\ [][Next]_vars
    /\ WF_vars(export_post /\ UNCHANGED <<pvars, lfvars>>)
    /\ WF_vars(\E resp \in Responses : export_response(resp) /\ UNCHANGED <<pvars, lfvars>>)

\* ------------------------------------------------- queue and scheduler
\* KeywordsProcessor hands its parameters to BatchTraceProcessor, which holds
\* the queue and the background consumer; that class is not part of the
\* source, and the operations below follow the specification's sections 3,
\* 4.1 and 5.
evars ==
    <<api_key, endpoint, max_retries, base_delay, max_delay, pc, items,
      payload, attempt, delay, outcome, calls, posts, answers, sleeps,
      startEndpoint>>

\* export_trigger_ratio, in percent.
ExportTriggerPercent == 70

\* The n-th record a producer enqueues.
QRecord(n) == Trace(Native([id |-> "r" \o ToString(n), workflow_name |-> "wf"]), FALSE)

\* The answers of the transport in the processor specification.
ProcResponses == {Response(200), Response(503)}

\* Faulty variant: a full queue accepts one record more.
HasRoom_OneMore(q) == Len(q) <= MaxQueueSize

\* The queue has room for one more record.
HasRoom(q) == Len(q) < MaxQueueSize

\* Faulty variant: a full queue makes room by discarding its oldest record.
Enqueued_DropOldest(q, r) ==
    IF HasRoom(q) THEN Append(q, r) ELSE Append(Tail(q), r)

\* The queue after enqueue(r): r appended if capacity allows.
Enqueued(q, r) == IF HasRoom(q) THEN Append(q, r) ELSE q

\* Faulty variant: the producer waits while the consumer is exporting.
CanEnqueue_WaitsForExport == pc = "idle"

\* enqueue is non-blocking: it can run in every state of the consumer.
CanEnqueue == TRUE

\* enqueue(record): appends if capacity allows, else discards the record
\* and counts a drop.
enqueue ==
    /\ CanEnqueue
    /\ enqueued < MaxEnqueues
    /\ enqueued' = enqueued + 1
    /\ queue' = Enqueued(queue, QRecord(enqueued + 1))
    /\ IF HasRoom(queue)
       THEN /\ accepted' = Append(accepted, QRecord(enqueued + 1))
            /\ UNCHANGED dropped
       ELSE /\ dropped' = dropped + 1
            /\ UNCHANGED accepted
    /\ UNCHANGED <<tick, mode, handed, evars>>

\* The schedule interval elapses.
timer ==
    /\ ~tick
    /\ tick' = TRUE
    /\ UNCHANGED <<queue, dropped, mode, enqueued, accepted, handed, evars>>

\* Faulty variant: only the timer wakes the consumer.
WakeUp_TimerOnly == tick

\* The consumer wakes: the interval has elapsed, or occupancy has reached
\* the trigger ratio.
WakeUp == tick \/ 100 * Len(queue) >= ExportTriggerPercent * MaxQueueSize

\* drain(max_batch_size) removes this many records.
DrainCount(q, n) == Min(n, Len(q))

\* Faulty variant: drain takes the newest records.
Drained_Newest(q, n) == SubSeq(q, Len(q) - DrainCount(q, n) + 1, Len(q))

\* The records drain(n) removes: the oldest ones.
Drained(q, n) == SubSeq(q, 1, DrainCount(q, n))

\* Faulty variant: drain leaves the last drained record in the queue.
Remaining_KeepsOne(q, n) == SubSeq(q, DrainCount(q, n), Len(q))

\* The records drain(n) leaves.
Remaining(q, n) == SubSeq(q, DrainCount(q, n) + 1, Len(q))

\* One batch is drained and handed to the exporter, whose call starts.
DrainAndExport ==
    /\ pc = "idle"
    /\ queue # <<>>
    /\ queue' = Remaining(queue, MaxBatch)
    /\ handed' = handed \o Drained(queue, MaxBatch)
    /\ tick' = FALSE
    /\ export_begin(Drained(queue, MaxBatch))
    /\ UNCHANGED <<dropped, mode, enqueued, accepted>>

\* The background consumer, on wake-up.
consumer_drain ==
    /\ mode = "run"
    /\ WakeUp
    /\ DrainAndExport

\* flush(): drains everything that is queued, batch by batch.
flush_begin ==
    /\ mode = "run"
    /\ pc = "idle"
    /\ mode' = "flush"
    /\ UNCHANGED <<queue, dropped, tick, enqueued, accepted, handed, evars>>

flush_drain ==
    /\ mode = "flush"
    /\ DrainAndExport

flush_end ==
    /\ mode = "flush"
    /\ pc = "idle"
    /\ queue = <<>>
    /\ mode' = "run"
    /\ UNCHANGED <<queue, dropped, tick, enqueued, accepted, handed, evars>>

InitProc == InitWith({TRUE}, {2}, {10}, {30})

NextProc ==
    \/ enqueue /\ UNCHANGED lfvars
    \/ timer /\ UNCHANGED lfvars
    \/ consumer_drain /\ UNCHANGED lfvars
    \/ flush_begin /\ UNCHANGED lfvars
    \/ flush_drain /\ UNCHANGED lfvars
    \/ flush_end /\ UNCHANGED lfvars
    \/ export_post /\ UNCHANGED <<pvars, lfvars>>
    \/ \E resp \in ProcResponses : export_response(resp) /\ UNCHANGED <<pvars, lfvars>>

SpecProc == InitProc /\ [][NextProc]_vars

\* ------------------------------------------------- Langfuse wrapper
\* langfuse_to_keywordsai.py: LangfuseToKeywordsAI and its wrappers.  A
\* keyword argument is a value, None, or not passed at all.
Omitted == "<omitted>"
NoneValue == "<None>"

\* DEFAULT_MODEL and DEFAULT_PROVIDER
default_model == "gpt-4o"
default_provider == "openai"

\* The model / provider_id arguments of trace(), span(), generation(), end().
ArgPairs ==
    {<<Omitted, Omitted>>, <<NoneValue, NoneValue>>, <<"gpt-4o-mini", "azure">>}

\* The metadata argument of trace(): not passed, or a dict holding a value
\* json cannot encode.
NoMeta == "<no metadata>"
MetaArgs == {NoMeta, "<file>"}

\* Python truth of a string-or-None value.
PyTruthy(v) == v \notin {NoneValue, "", NoMeta}

\* kwargs.get(k) and kwargs.get(k, d)
KwargsGet(arg) == IF arg = Omitted THEN NoneValue ELSE arg
KwargsGetDefault(arg, d) == IF arg = Omitted THEN d ELSE arg

\* `a or b or c`
Or3(a, b, c) == IF PyTruthy(a) THEN a ELSE IF PyTruthy(b) THEN b ELSE c

\* TraceWrapper.__init__: self.model = kwargs.get("model", client.default_model)
TraceModel(arg, d) == KwargsGetDefault(arg, d)

\* SpanWrapper.__init__ and GenerationWrapper.__init__:
\* self.model = kwargs.get("model") or parent_model or client.default_model
ChildModel(arg, parent_model, d) == Or3(KwargsGet(arg), parent_model, d)

\* A wrapper object; parent is the index in nodes of the trace or span that
\* created it (0 for a trace), model_arg and provider_arg are what the
\* caller passed.
Node(kind, parent, model_arg, provider_arg, model, provider_id, metadata) ==
    [kind |-> kind, parent |-> parent,
     model_arg |-> model_arg, provider_arg |-> provider_arg,
     model |-> model, provider_id |-> provider_id, metadata |-> metadata]

\* LangfuseToKeywordsAI.trace
lf_trace(m, p, md) ==
    /\ Len(nodes) < MaxNodes
    /\ nodes' = Append(nodes,
                   Node("trace", 0, m, p, TraceModel(m, default_model),
                        TraceModel(p, default_provider), md))
    /\ UNCHANGED <<print_traces, logs_batch, lfposts, ends, flushes, flush_raised>>

\* TraceWrapper.span / generation and SpanWrapper.span / generation: the
\* parent hands its model and provider to the child.
lf_child(kind, parent, m, p) ==
    /\ Len(nodes) < MaxNodes
    /\ parent \in 1..Len(nodes)
    /\ nodes[parent].kind \in {"trace", "span"}
    /\ nodes' = Append(nodes,
                   Node(kind, parent, m, p,
                        ChildModel(m, nodes[parent].model, default_model),
                        ChildModel(p, nodes[parent].provider_id, default_provider),
                        NoMeta))
    /\ UNCHANGED <<print_traces, logs_batch, lfposts, ends, flushes, flush_raised>>

\* _convert_to_keywordsai_log: model only if truthy, provider_id always,
\* metadata only if truthy.
convert_to_keywordsai_log(span_id, model, provider_id, metadata) ==
    LET log0 == [span_unique_id |-> span_id,
                 provider_id |-> IF PyTruthy(provider_id) THEN provider_id ELSE ""]
        log1 == IF PyTruthy(model) THEN Put(log0, "model", model) ELSE log0
    IN IF PyTruthy(metadata) THEN Put(log1, "metadata", metadata) ELSE log1

\* The span data end() converts: a generation takes model and provider_id
\* of end() when they are truthy; a trace and a span have no such arguments.
EndModel(n, m) == IF n.kind = "generation" /\ PyTruthy(KwargsGet(m)) THEN m ELSE n.model
EndProvider(n, p) ==
    IF n.kind = "generation" /\ PyTruthy(KwargsGet(p)) THEN p ELSE n.provider_id

\* Faulty variant: end() sends the batch once it holds batch_size logs.
lf_end_AutoFlush(i, m, p) ==
    /\ ends < MaxEnds
    /\ i \in 1..Len(nodes)
    /\ ends' = ends + 1
    /\ LET batch == Append(logs_batch,
                       convert_to_keywordsai_log(i, EndModel(nodes[i], m),
                           EndProvider(nodes[i], p), nodes[i].metadata))
       IN IF Len(batch) >= BatchSize
          THEN /\ lfposts' = Append(lfposts, [logs |-> batch, answer |-> "200"])
               /\ logs_batch' = <<>>
          ELSE /\ logs_batch' = batch
               /\ UNCHANGED lfposts
    /\ UNCHANGED <<print_traces, nodes, flushes, flush_raised>>

\* TraceWrapper.end, SpanWrapper.end, GenerationWrapper.end: the log of the
\* object is appended to the batch.
lf_end(i, m, p) ==
    /\ ends < MaxEnds
    /\ i \in 1..Len(nodes)
    /\ ends' = ends + 1
    /\ logs_batch' = Append(logs_batch,
                         convert_to_keywordsai_log(i, EndModel(nodes[i], m),
                             EndProvider(nodes[i], p), nodes[i].metadata))
    /\ UNCHANGED <<print_traces, nodes, lfposts, flushes, flush_raised>>

\* json can encode the batch.
LogsEncode(batch) ==
    \A i \in 1..Len(batch) :
        "metadata" \in DOMAIN batch[i] => batch[i]["metadata"] \notin NotSerializable

\* The outcomes of requests.post: status 200, another status, an exception.
PostAnswers == {"200", "500", "raised"}

\* Faulty variant: the batch is kept when the POST did not return 200.
BatchAfterPost_KeepOnFailure(batch, answer) == IF answer = "200" THEN <<>> ELSE batch

\* `finally: self.logs_batch = []`
BatchAfterPost(batch, answer) == <<>>

\* flush -> _send_to_keywordsai.  With PRINT_TRACES the batch is printed
\* with json.dumps before the try block; requests.post(json=...) encodes it
\* inside the try block, where every Exception is caught.
lf_flush(answer) ==
    /\ flushes < MaxFlushes
    /\ flushes' = flushes + 1
    /\ IF ~(Len(logs_batch) >= BatchSize \/ logs_batch # <<>>)
       THEN /\ flush_raised' = FALSE
            /\ UNCHANGED <<logs_batch, lfposts>>
       ELSE IF print_traces /\ ~LogsEncode(logs_batch)
       THEN /\ flush_raised' = TRUE
            /\ UNCHANGED <<logs_batch, lfposts>>
       ELSE /\ flush_raised' = FALSE
            /\ LogsEncode(logs_batch) \/ answer = "raised"
            /\ lfposts' = Append(lfposts, [logs |-> logs_batch, answer |-> answer])
            /\ logs_batch' = BatchAfterPost(logs_batch, answer)
    /\ UNCHANGED <<print_traces, nodes, ends>>

InitLf ==
    /\ ProcInit
    /\ LfInit({FALSE})
    /\ InitExporter({TRUE}, {2}, {10}, {30})

\* Model and provider down a tree of wrappers: every argument pair, logs
\* json can encode, a transport that answers 200.
NextLf ==
    \/ \E a \in ArgPairs : lf_trace(a[1], a[2], NoMeta) /\ UNCHANGED <<evars, pvars>>
    \/ \E k \in {"span", "generation"}, i \in 1..MaxNodes, a \in ArgPairs :
          lf_child(k, i, a[1], a[2]) /\ UNCHANGED <<evars, pvars>>
    \/ \E i \in 1..MaxNodes, a \in ArgPairs :
          lf_end(i, a[1], a[2]) /\ UNCHANGED <<evars, pvars>>
    \/ lf_flush("200") /\ UNCHANGED <<evars, pvars>>

SpecLf == InitLf /\ [][NextLf]_vars

InitLfFlush ==
    /\ ProcInit
    /\ LfInit(BOOLEAN)
    /\ InitExporter({TRUE}, {2}, {10}, {30})

\* flush: every outcome of the POST, PRINT_TRACES on and off, metadata json
\* can and cannot encode; traces only, default model.
NextLfFlush ==
    \/ \E md \in MetaArgs : lf_trace(Omitted, Omitted, md) /\ UNCHANGED <<evars, pvars>>
    \/ \E i \in 1..MaxNodes : lf_end(i, Omitted, Omitted) /\ UNCHANGED <<evars, pvars>>
    \/ \E answer \in PostAnswers : lf_flush(answer) /\ UNCHANGED <<evars, pvars>>

SpecLfFlush == InitLfFlush /\ [][NextLfFlush]_vars

\* The batch between flushes: traces, spans and generations with the
\* default model, logs json can encode, a transport that answers 200.
NextLfBatch ==
    \/ lf_trace(Omitted, Omitted, NoMeta) /\ UNCHANGED <<evars, pvars>>
    \/ \E k \in {"span", "generation"}, i \in 1..MaxNodes :
          lf_child(k, i, Omitted, Omitted) /\ UNCHANGED <<evars, pvars>>
    \/ \E i \in 1..MaxNodes : lf_end(i, Omitted, Omitted) /\ UNCHANGED <<evars, pvars>>
    \/ lf_flush("200") /\ UNCHANGED <<evars, pvars>>

SpecLfBatch == InitLf /\ [][NextLfBatch]_vars

\* ------------------------------------------------------------------ claims
Max(a, b) == IF a >= b THEN a ELSE b

RECURSIVE Pow2(_)
Pow2(n) == IF n <= 0 THEN 1 ELSE 2 * Pow2(n - 1)

RECURSIVE Sum(_)
Sum(s) == IF s = <<>> THEN 0 ELSE Head(s) + Sum(Tail(s))

\* A call that reached the transport has returned.
CallEnded == pc = "idle" /\ Len(answers) > 0

\* Its last POST was answered with a status < 300.
CallSucceeded ==
    /\ CallEnded
    /\ ~answers[Len(answers)].err
    /\ answers[Len(answers)].status_code < 300

\* The answers seen so far are those of a transport that answers 503 to the
\* first r attempts and 200 to every later one.
Follows503Then200(r) ==
    \A i \in 1..Len(answers) :
        answers[i] = IF i <= r THEN Response(503) ELSE Response(200)

Is4xx(resp) == ~resp.err /\ resp.status_code \in 400..499
Is2xxOrLess(resp) == ~resp.err /\ resp.status_code \in 0..299
\* status >= 500 or a transport-level error
IsTransientFailure(resp) == resp.err \/ resp.status_code >= 500

\* C1: an attempt answered with a status in [400,500) is the last attempt
\* of its export call: no POST follows it, and the call has returned with the
\* batch dropped (so a 400 to the first attempt means exactly 1 attempt),
\* whatever max_retries is.
C1_ClientErrorNotRetried ==
    \A i \in 1..Len(answers) :
        Is4xx(answers[i]) =>
            /\ i = Len(answers)
            /\ Len(posts) = i
            /\ pc = "idle"
            /\ outcome = "client_error"

\* A 4xx answer arrived while the retry budget was not used up.
C1_Witness ==
    /\ Len(answers) >= 1
    /\ Is4xx(answers[Len(answers)])
    /\ Len(answers) < max_retries

\* C2 as claimed: with 503 to the first r attempts and 200 afterwards, the
\* call succeeds iff r < max_retries, for every max_retries.
C2_Original ==
    \A r \in 0..(MaxRetriesCfg + 1) :
        (CallEnded /\ Follows503Then200(r)) =>
            (CallSucceeded <=> r < max_retries)

\* C2 amended: with 503 to the first r attempts and 200 afterwards, the call
\* succeeds iff r < max_retries or r = 0 (the first attempt is made whatever
\* max_retries is).
C2_SuccessIffFewFailures ==
    \A r \in 0..(MaxRetriesCfg + 1) :
        (CallEnded /\ Follows503Then200(r)) =>
            (CallSucceeded <=> (r < max_retries \/ r = 0))

\* Two 503 answers, then a 200 that ends the call in success.
C2_Witness ==
    /\ CallSucceeded
    /\ Len(answers) = 3
    /\ Follows503Then200(2)

\* C3 as claimed: a call makes at most max_retries POSTs, and exactly
\* max_retries when every attempt fails transiently.
C3_Original ==
    /\ Len(posts) >= 1 => Len(posts) <= max_retries
    /\ (CallEnded /\ \A i \in 1..Len(answers) : IsTransientFailure(answers[i]))
          => Len(posts) = max_retries

\* C3 amended: a call makes at most max(max_retries, 1) POSTs; when every
\* attempt fails transiently it makes exactly max(max_retries, 1), then
\* returns with the batch dropped; and every POST of a call, also of a later
\* call, carries the batch of that call and nothing else.
C3_BoundedAttemptsThenDrop ==
    /\ Len(posts) <= Max(max_retries, 1)
    /\ (CallEnded /\ \A i \in 1..Len(answers) : IsTransientFailure(answers[i]))
          => (Len(posts) = Max(max_retries, 1) /\ outcome = "gave_up")
    /\ \A i \in 1..Len(posts) : posts[i].data = Data(items)

\* A later call gave up after three transient failures.
C3_Witness ==
    /\ calls = 2
    /\ outcome = "gave_up"
    /\ Len(posts) = 3
    /\ \A i \in 1..Len(answers) : IsTransientFailure(answers[i])

\* The delay the spec's formula gives for the sleep before retry k.
ClaimedDelay(k) == Min(base_delay * Pow2(k - 1), max_delay)

\* The same, with the first delay not capped.
ActualDelay(k) == IF k = 1 THEN base_delay ELSE ClaimedDelay(k)

\* s = d + jitter with 0 <= jitter <= 0.1 * d
WithinJitter(s, d) == d <= s /\ 10 * (s - d) <= d

\* C4 as claimed: the sleep before retry k is d + jitter with
\* d = min(base_delay * 2^(k-1), max_delay) and 0 <= jitter <= 0.1 * d, for
\* every base_delay and max_delay.
C4_Original ==
    \A k \in 1..Len(sleeps) : WithinJitter(sleeps[k], ClaimedDelay(k))

\* C4 amended: the sleep before retry k is d + jitter with 0 <= jitter <=
\* 0.1 * d, where d = base_delay for k = 1 (max_delay does not cap the first
\* delay) and d = min(base_delay * 2^(k-1), max_delay) for k >= 2.
C4_BackoffDelay ==
    \A k \in 1..Len(sleeps) : WithinJitter(sleeps[k], ActualDelay(k))

\* Two sleeps were taken with base_delay above max_delay.
C4_Witness == Len(sleeps) >= 2 /\ base_delay > max_delay

UncappedDelay(k) == base_delay * Pow2(k - 1)

RECURSIVE SumUncapped(_)
SumUncapped(n) == IF n <= 0 THEN 0 ELSE UncappedDelay(n) + SumUncapped(n - 1)

RECURSIVE SumActual(_)
SumActual(n) == IF n <= 0 THEN 0 ELSE ActualDelay(n) + SumActual(n - 1)

\* C5 as claimed: after 503 r times and then 200, the sleeps of the call sum
\* to between S and 1.1 * S with S the sum over k = 1..r of
\* base_delay * 2^(k-1), for every base_delay and max_delay.
C5_Original ==
    \A r \in 0..(MaxRetriesCfg + 1) :
        (CallSucceeded /\ Len(answers) = r + 1 /\ Follows503Then200(r)) =>
            /\ SumUncapped(r) <= Sum(sleeps)
            /\ 10 * Sum(sleeps) <= 11 * SumUncapped(r)

\* C5 amended: the sum lies between S and 1.1 * S with S the sum over
\* k = 1..r of d(k), d(1) = base_delay and
\* d(k) = min(base_delay * 2^(k-1), max_delay) for k >= 2.
C5_TotalDelay ==
    \A r \in 0..(MaxRetriesCfg + 1) :
        (CallSucceeded /\ Len(answers) = r + 1 /\ Follows503Then200(r)) =>
            /\ Len(sleeps) = r
            /\ SumActual(r) <= Sum(sleeps)
            /\ 10 * Sum(sleeps) <= 11 * SumActual(r)

\* Success after two 503 answers, the second delay cut by max_delay.
C5_Witness ==
    /\ CallSucceeded
    /\ Len(answers) = 3
    /\ Follows503Then200(2)
    /\ base_delay * 2 > max_delay

\* C6 as claimed: every attempt of an export call POSTs to the endpoint the
\* exporter had when the call started, also after set_endpoint ran.
C6_Original == \A i \in 1..Len(posts) : posts[i].url = startEndpoint

\* C6 amended: every attempt POSTs to the endpoint the exporter has when
\* the attempt is made: after set_endpoint(u) every POST until the next
\* set_endpoint goes to u, those of calls started afterwards and the
\* remaining attempts of a call already in flight alike; POSTs already made
\* stay as they were.
C6_EndpointReadPerAttempt ==
    [][/\ Len(posts') = Len(posts) + 1 =>
            posts'[Len(posts')].url = endpoint
       /\ (Len(posts') >= Len(posts) /\ Len(posts) > 0) =>
            \A i \in 1..Len(posts) : posts'[i] = posts[i]]_vars

\* One call has POSTed to two different endpoints.
C6_Witness ==
    /\ Len(posts) >= 2
    /\ posts[1].url = startEndpoint
    /\ posts[2].url # startEndpoint

\* C7: without an API key no export call POSTs, sleeps or raises, whatever
\* the batch; each returns at once, the first and the later ones.
C7_NoKeyNoOp ==
    ~api_key =>
        /\ pc = "idle"
        /\ posts = <<>>
        /\ sleeps = <<>>
        /\ answers = <<>>
        /\ outcome \in {"none", "empty", "no_key"}

\* A second call without API key returned, its batch holding a record whose
\* normalization would raise.
C7_Witness ==
    /\ ~api_key
    /\ calls = 2
    /\ outcome = "no_key"
    /\ \E i \in 1..Len(items) : keywordsai_export_raises(items[i])

\* C8: an attempt answered with a status < 300 is the last step of its call:
\* the call has returned success, with no POST and no sleep after it.
C8_SuccessReturnsAtOnce ==
    \A i \in 1..Len(answers) :
        Is2xxOrLess(answers[i]) =>
            /\ i = Len(answers)
            /\ Len(posts) = i
            /\ Len(sleeps) = i - 1
            /\ pc = "idle"
            /\ outcome = "success"

\* A retry was answered 299 with the retry budget not used up.
C8_Witness ==
    /\ Len(answers) = 2
    /\ answers[2] = Response(299)
    /\ Len(answers) < max_retries

\* C9 as claimed: no export call raises, whatever the records and the
\* transport's answers.
C9_ExportNeverRaises == outcome # "raised"

\* The positions of the records whose normalized form is a non-empty mapping.
KeptIndexes(its) ==
    {i \in 1..Len(its) : ~keywordsai_export(its[i]).isNone
                            /\ DOMAIN keywordsai_export(its[i]).map # {}}

\* The j-th smallest element of a set of numbers.
Nth(S, j) == CHOOSE x \in S : Cardinality({y \in S : y <= x}) = j

\* C10: every POST carries the normalized forms of the batch's records, in
\* the batch's order, one per record that normalizes to a non-empty mapping
\* (so all attempts of a call send the same payload).
C10_PayloadIsNormalizedBatch ==
    \A p \in 1..Len(posts) :
        /\ Len(posts[p].data) = Cardinality(KeptIndexes(items))
        /\ \A j \in 1..Len(posts[p].data) :
              posts[p].data[j] =
                  keywordsai_export(items[Nth(KeptIndexes(items), j)]).map

\* Two attempts of a call whose batch holds a record that normalizes to
\* nothing before one that is kept.
C10_Witness ==
    /\ Len(posts) = 2
    /\ Len(items) = 2
    /\ KeptIndexes(items) = {2}


\* The positions of the records whose native export is a non-empty mapping.
NativeKept(its) ==
    {i \in 1..Len(its) : ~its[i].native.isNone /\ DOMAIN its[i].native.map # {}}

\* Normalization has returned and the payload of the current call is built.
PayloadBuilt == pc \in {"loop", "inflight"}

\* C11 as claimed: a record with a non-serializable field, in its native
\* mapping or in its span data, is in the payload with every other field
\* and without that one, next to the other records of the batch.
C11_NonSerializableFieldDropped ==
    PayloadBuilt =>
        /\ Len(payload) = Cardinality(NativeKept(items))
        /\ \A j \in 1..Len(payload) :
              LET it == items[Nth(NativeKept(items), j)]
              IN /\ \A k \in DOMAIN it.native.map :
                        (it.native.map[k] \notin NotSerializable)
                            <=> k \in DOMAIN payload[j]
                 /\ \A k \in DOMAIN payload[j] :
                        payload[j][k] \notin NotSerializable

\* The fields normalization writes itself.
Written(it) ==
    IF it.kind = "trace" THEN {"span_type"}
    ELSE {"span_type", "span_id", "parent_id", "trace_id"}
            \cup {"span_data_" \o n : n \in DOMAIN it.span_data}

SpanTypeOf(it) == IF it.kind = "trace" THEN "trace" ELSE it.span_data_type

\* C12 as claimed: every key of the native mapping keeps its value in the
\* normalized record, and span_type (and for a span span_id, parent_id,
\* trace_id, where the native mapping lacks them) is added.
C12_Original ==
    PayloadBuilt =>
        \A j \in 1..Len(payload) :
            LET it == items[Nth(NativeKept(items), j)]
            IN /\ \A k \in DOMAIN it.native.map :
                      k \in DOMAIN payload[j] /\ payload[j][k] = it.native.map[k]
               /\ "span_type" \in DOMAIN payload[j]

\* C12 amended: the normalized record has every key of the native mapping;
\* every key other than the ones normalization writes keeps its value;
\* span_type is set to 'trace' for a trace and to the span-data type name
\* for a span, and for a span span_id, parent_id and trace_id are set to the
\* span's own attributes, replacing what the native mapping held there.
C12_NormalizationWrites ==
    PayloadBuilt =>
        \A j \in 1..Len(payload) :
            LET it == items[Nth(NativeKept(items), j)]
            IN /\ \A k \in DOMAIN it.native.map :
                      /\ k \in DOMAIN payload[j]
                      /\ k \notin Written(it) => payload[j][k] = it.native.map[k]
               /\ payload[j]["span_type"] = SpanTypeOf(it)
               /\ it.kind = "span" =>
                      /\ payload[j]["span_id"] = it.span_id
                      /\ payload[j]["parent_id"] = it.parent_id
                      /\ payload[j]["trace_id"] = it.trace_id

\* The payload holds a span whose native trace_id and span_type were
\* replaced.
C12_Witness ==
    /\ PayloadBuilt
    /\ \E j \in 1..Len(payload) :
          LET it == items[Nth(NativeKept(items), j)]
          IN /\ "trace_id" \in DOMAIN it.native.map
             /\ it.native.map["trace_id"] # payload[j]["trace_id"]
             /\ "span_type" \in DOMAIN it.native.map

\* C13 as claimed: once export is past its API key check, every record
\* with a non-empty native mapping is produced, and for a span exactly the
\* public, JSON-serializable span-data attributes appear as
\* span_data_<name>, whatever reading or serializing another attribute did.
C13_FlatteningBestEffort ==
    outcome \notin {"none", "empty", "no_key"} =>
        /\ Len(payload) = Cardinality(NativeKept(items))
        /\ \A j \in 1..Len(payload) :
              LET it == items[Nth(NativeKept(items), j)]
              IN it.kind = "span" =>
                    \A n \in DOMAIN it.span_data :
                        /\ ("span_data_" \o n) \in DOMAIN payload[j]
                              <=> /\ ~IsPrivate(n)
                                  /\ it.span_data[n] \notin NotSerializable
                                  /\ it.span_data[n] # "<raises>"
                        /\ ("span_data_" \o n) \in DOMAIN payload[j]
                              => payload[j]["span_data_" \o n] = it.span_data[n]

\* ------------------------------------------------- claims on the queue
\* The first n records the producers enqueue.
FirstRecords(n) == [i \in 1..n |-> QRecord(i)]

NoDuplicates(q) == \A i, j \in 1..Len(q) : q[i] = q[j] => i = j

\* Occupancy has reached export_trigger_ratio * max_queue_size.
OccupancyReached == 100 * Len(queue) >= ExportTriggerPercent * MaxQueueSize

\* C14: the queue never holds more than max_queue_size records; an enqueue
\* on a full queue can run (it does not block), leaves the queue unchanged
\* and discards the new record, counting the drop.
C14_QueueBounded ==
    /\ [](Len(queue) <= MaxQueueSize)
    /\ []((Len(queue) = MaxQueueSize /\ enqueued < MaxEnqueues) => ENABLED enqueue)
    /\ [][(enqueued' # enqueued /\ Len(queue) = MaxQueueSize)
            => (queue' = queue /\ dropped' = dropped + 1 /\ accepted' = accepted)]_vars

C14_Witness == Len(queue) = MaxQueueSize /\ dropped > 0

\* C15: N <= max_queue_size records enqueued are all accepted; the records
\* handed to the exporter followed by the queued ones are the accepted
\* ones, each once; no batch exceeds max_batch_size; flush returns only
\* with the queue empty and every accepted record handed over.
C15_FlushHandsAll ==
    /\ [](Len(items) <= MaxBatch)
    /\ [](enqueued <= MaxQueueSize
            => (dropped = 0 /\ accepted = FirstRecords(enqueued)))
    /\ [](handed \o queue = accepted /\ NoDuplicates(accepted))
    /\ [][(mode = "flush" /\ mode' = "run")
            => (queue' = <<>> /\ handed' = accepted)]_vars

C15_Witness ==
    /\ mode = "flush" /\ pc = "idle" /\ queue = <<>>
    /\ enqueued = MaxQueueSize
    /\ handed = FirstRecords(MaxQueueSize)
    /\ calls = 2

\* C16: N > max_queue_size records enqueued with no drain in between leave
\* exactly the first max_queue_size of them in the queue, and the drop
\* counter at N - max_queue_size.
C16_OverflowKeepsFirst ==
    (handed = <<>> /\ enqueued > MaxQueueSize)
        => /\ queue = FirstRecords(MaxQueueSize)
           /\ dropped = enqueued - MaxQueueSize

C16_Witness == handed = <<>> /\ enqueued = MaxEnqueues

\* C17: a drain removes the min(max_batch_size, length) oldest records and
\* hands them over as one batch, the remaining records keep their order,
\* and the records reach the exporter in the order they were enqueued.
C17_DrainIsFifo ==
    /\ [][handed' # handed
            => LET n == IF MaxBatch < Len(queue) THEN MaxBatch ELSE Len(queue) IN
                 /\ items' = SubSeq(queue, 1, n)
                 /\ handed' = handed \o SubSeq(queue, 1, n)
                 /\ queue' = SubSeq(queue, n + 1, Len(queue))]_vars
    /\ [](Len(handed) <= Len(accepted)
          /\ handed = SubSeq(accepted, 1, Len(handed)))

C17_Witness == Len(handed) > MaxBatch /\ queue # <<>>

C19_ProducersNeverWait ==
    /\ [](enqueued < MaxEnqueues => ENABLED enqueue)
    /\ [](/\ handed \o queue = accepted
          /\ Len(accepted) + dropped = enqueued
          /\ \A i, j \in 1..Len(accepted) : accepted[i] = accepted[j] => i = j)
    /\ [][(pc # "idle" /\ enqueued' # enqueued)
            => /\ UNCHANGED evars
               /\ \/ queue' = Append(queue, QRecord(enqueued'))
                  \/ queue' = queue /\ dropped' = dropped + 1]_vars

C19_Witness ==
    /\ pc = "loop" /\ sleeps # <<>> /\ calls = 1
    /\ Len(accepted) = MaxEnqueues

\* ------------------------------------------------- termination
TerminalOutcomes == {"success", "client_error", "gave_up"}

\* C20: a call that has entered the retry loop with a payload the client
\* can send, every attempt of which gets a response or a transport error,
\* eventually returns, and it returns with exactly one of the outcomes
\* success, permanent client failure, retries exhausted; this for every
\* max_retries of the configuration.
C20_ExportTerminates ==
    /\ ((pc = "loop" /\ PayloadEncodes(payload))
          ~> (pc = "idle" /\ outcome \in TerminalOutcomes))
    /\ [][(pc # "idle" /\ PayloadEncodes(payload) /\ pc' = "idle")
            => outcome' \in TerminalOutcomes]_vars

\* The cap on the attempt counter in export_post never binds.
AttemptCapNeverBinds == pc = "loop" => attempt < MaxRetriesCfg

C20_Witness ==
    /\ pc = "idle" /\ outcome = "gave_up" /\ calls = 1
    /\ Len(answers) = MaxRetriesCfg /\ max_retries = MaxRetriesCfg

Is3xx(resp) == ~resp.err /\ resp.status_code \in 300..399

\* The call has ended and every answer it got was a 3xx status.
EndedAll3xx == CallEnded /\ \A i \in 1..Len(answers) : Is3xx(answers[i])

\* An answer with a 3xx status is not the end of the call unless the
\* attempts are used up, and then the outcome is that of exhausted retries;
\* the sleep after it is the backoff sleep of its position.
Retried3xx ==
    \A i \in 1..Len(answers) :
        Is3xx(answers[i]) =>
            /\ (i = Len(answers) /\ pc = "idle")
                  => (outcome = "gave_up" /\ i >= max_retries)
            /\ (i < Len(answers) \/ pc = "loop")
                  => /\ i < max_retries
                     /\ Len(sleeps) >= i
                     /\ WithinJitter(sleeps[i], ActualDelay(i))

\* C25 as claimed: a 3xx answer is retried with backoff like a 5xx, and a
\* call answered 3xx throughout makes max_retries attempts.
C25_Original ==
    /\ Retried3xx
    /\ EndedAll3xx => Len(posts) = max_retries

\* C25 amended: a 3xx answer is retried with backoff like a 5xx, and a call
\* answered 3xx throughout makes max(max_retries, 1) attempts.
C25_RedirectIsTransient ==
    /\ Retried3xx
    /\ EndedAll3xx => Len(posts) = Max(max_retries, 1)

\* A 300 was retried after a backoff sleep, and the call went on.
C25_Witness ==
    /\ Len(answers) >= 2
    /\ Is3xx(answers[1]) /\ Is3xx(answers[2])
    /\ Len(sleeps) >= 1
    /\ max_retries = MaxRetriesCfg

\* C26: sleeps and POSTs alternate, beginning and ending with a POST: no
\* sleep before the first POST, as many sleeps as POSTs while the call is
\* about to post again, one less once the POST is out or the call is over.
C26_SleepOnlyBetweenAttempts ==
    /\ Len(posts) = 0 => Len(sleeps) = 0
    /\ pc = "loop" => Len(sleeps) = Len(posts)
    /\ (pc \in {"inflight", "idle"} /\ Len(posts) >= 1)
          => Len(sleeps) = Len(posts) - 1
    /\ (pc = "idle" /\ outcome = "gave_up")
          => Len(answers) = Len(posts)

\* A call gave up after its last attempt, with one sleep less than attempts.
C26_Witness ==
    /\ pc = "idle" /\ outcome = "gave_up"
    /\ Len(posts) = 3 /\ Len(sleeps) = 2

\* The batch of the current call yields at least one normalized record.
YieldsRecord ==
    /\ items # <<>>
    /\ \A i \in 1..Len(items) : ~keywordsai_export_raises(items[i])
    /\ \E i \in 1..Len(items) :
          ~items[i].native.isNone /\ DOMAIN items[i].native.map # {}

\* C27: a call with the key set and a batch that yields a record has made
\* at least one POST when it returns, whatever max_retries is, and never
\* more than one when max_retries <= 0.
C27_AtLeastOneAttempt ==
    (calls >= 1 /\ api_key /\ YieldsRecord)
        => /\ pc = "idle" => Len(posts) >= 1
           /\ max_retries <= 0 => Len(posts) <= 1
           /\ (max_retries <= 0 /\ pc = "idle") => Len(posts) = 1

\* A call with max_retries = -1 made its one attempt and gave up.
C27_Witness ==
    /\ max_retries = -1 /\ api_key
    /\ pc = "idle" /\ outcome = "gave_up"
    /\ Len(posts) = 1

\* C28: every call enters its loop with attempt 0 and delay base_delay,
\* whatever the earlier calls left, so its attempt count is the number of
\* its own POSTs and its first sleep is the one of base_delay.
C28_RetryStateLocal ==
    /\ (pc = "loop" /\ posts = <<>>) => (attempt = 0 /\ delay = base_delay)
    /\ pc \in {"loop", "inflight"} => attempt = Len(posts)
    /\ Len(sleeps) >= 1 => WithinJitter(sleeps[1], base_delay)

\* The second call on the exporter, about to make its first attempt.
C28_Witness ==
    /\ calls = 2 /\ pc = "loop" /\ posts = <<>>
    /\ attempt = 0 /\ delay = base_delay
    /\ max_retries = MaxRetriesCfg

\* The batch of the current call is empty, or each of its records has an
\* empty or None native export.
YieldsNothing ==
    \A i \in 1..Len(items) :
        /\ ~items[i].exportRaises
        /\ items[i].native.isNone \/ DOMAIN items[i].native.map = {}

\* C29: a call on such a batch returns at once, with no POST and no sleep,
\* with or without an API key.
C29_NothingToSendNoPost ==
    (calls >= 1 /\ YieldsNothing)
        => /\ pc = "idle"
           /\ outcome \in {"empty", "no_key", "no_data"}
           /\ posts = <<>> /\ sleeps = <<>> /\ answers = <<>>

\* A batch of two records without native export, key set: nothing sent.
C29_Witness ==
    /\ calls >= 1 /\ api_key
    /\ items = <<TraceNone, TraceEmpty>>
    /\ outcome = "no_data" /\ posts = <<>>

\* ------------------------------------------------- claims on the Langfuse wrapper
\* The caller passed a value for the argument (not None, not nothing).
Explicit(arg) == arg \notin {Omitted, NoneValue}

\* C21 as claimed: a span or generation has the model (provider) passed
\* explicitly, and without one it has the model (provider) of the trace or
\* span that created it, at every depth.
C21_ModelByPriority ==
    \A i \in 1..Len(nodes) :
        nodes[i].kind # "trace" =>
            LET n == nodes[i]
                par == nodes[n.parent]
            IN /\ Explicit(n.model_arg) => n.model = n.model_arg
               /\ ~Explicit(n.model_arg) => n.model = par.model
               /\ Explicit(n.provider_arg) => n.provider_id = n.provider_arg
               /\ ~Explicit(n.provider_arg) => n.provider_id = par.provider_id

\* C22 as claimed: every log entry appended by an end() call, in the batch
\* or already sent, carries a model field.
C22_EveryLogHasModel ==
    /\ \A j \in 1..Len(logs_batch) : "model" \in DOMAIN logs_batch[j]
    /\ \A k \in 1..Len(lfposts) :
          \A j \in 1..Len(lfposts[k].logs) : "model" \in DOMAIN lfposts[k].logs[j]

\* Number of logs sent by the first k POSTs.
RECURSIVE SentLogs(_)
SentLogs(k) == IF k = 0 THEN 0 ELSE Len(lfposts[k].logs) + SentLogs(k - 1)

\* C23 as claimed: a flush of a non-empty batch makes one POST carrying the
\* whole batch in order and leaves the batch empty, whatever the POST's
\* outcome; a flush of an empty batch makes no POST; every log is in the
\* batch or in exactly one POST.
C23_FlushSendsOnceAndClears ==
    /\ [][flushes' # flushes
            => /\ logs_batch' = <<>>
               /\ IF logs_batch = <<>>
                  THEN lfposts' = lfposts
                  ELSE /\ Len(lfposts') = Len(lfposts) + 1
                       /\ SubSeq(lfposts', 1, Len(lfposts)) = lfposts
                       /\ lfposts'[Len(lfposts')].logs = logs_batch]_vars
    /\ [](SentLogs(Len(lfposts)) + Len(logs_batch) = ends)

====
